---- MODULE Spec2Model ----
(* State-machine model of src/src/benchmarking/calculate_mcp_metrics.py:      *)
(* class CalculateMCPMetrics (calculate, _process_dialogue, the _update_*      *)
(* methods, the results property) together with the dataclasses it fills.      *)
(*                                                                             *)
(* One object of CalculateMCPMetrics is modelled.  A client may call           *)
(* calculate() or read the property `results` whenever no call is running      *)
(* (Spec), and print_results() or save_results_to_json() as well (ReportSpec); *)
(* a call runs step by step (one step per statement group of the source, the   *)
(* position held in pc) because an external call may raise in the middle of a  *)
(* turn and leave the object in the state it had at that statement.            *)
(*                                                                             *)
(* Conventions.  Dialogues are numbered 1..N (the source's index i is ours     *)
(* minus 1).  dialogue[-1].messages of dialogue d is held as a sequence of      *)
(* turn numbers: turn j of a session loaded with k turns is the number j in     *)
(* 1..k, so a turn is identified by (dialogue, number).  The list copied by     *)
(* `self.dataset.sessions.copy()` is a shallow copy: its elements are the       *)
(* dataset's own session objects, so `sessions` below is both the dataset and   *)
(* the list calculate() iterates over.  A float is a pair of integers.          *)
EXTENDS FiniteSets, Integers, Sequences, TLC

\* ---------------------------------------------------------------- bounds
\* largest number of dialogues in the dataset
MaxSessions == 2
\* largest number of turns of a replayed session as loaded
MaxTurns == 3
\* largest number of client calls in one behaviour
MaxCalls == 2
\* largest number of dialogues in the dataset of an object that is also asked
\* to print and to save
MaxReportSessions == 1
\* bits of the significand of a float (53 in a Python float)
MantissaBits == 6
\* largest number of samples handed to MetricStats.from_values on its own
MaxSamples == 3
\* how many different sample values are handed to it
SampleSpread == 8

VARIABLES
    sessions,                  \* dataset.sessions[d][-1].messages, mutated in place
    original,                  \* the sessions as loaded (never written)
    _recsum_semantic_data,     \* RawSemanticData
    _baseline_semantic_data,   \* RawSemanticData
    _recsum_llm_data,          \* RawLLMData
    _baseline_llm_data,        \* RawLLMData
    _pairwise_data,            \* PairwiseResults
    message_count,
    _is_calculated,
    pc,                        \* position of the running call, "idle" when none
    caller,                    \* which client call is running
    i,                         \* loop variable of calculate() (1-based)
    ideal_response,            \* local of _process_dialogue (0: unset)
    query,                     \* local of _process_dialogue (0: unset)
    error,                     \* how the last client call ended
    lastCall,                  \* the latest call made to an external collaborator
    file,                      \* what the path given to save_results_to_json holds
    stdout,                    \* what the latest print_results() has printed
    given,                     \* the list given to MetricStats.from_values called alone
    stats,                     \* what that call returned
    hist                       \* history: counters of what has happened so far

vars == <<sessions, original, _recsum_semantic_data, _baseline_semantic_data,
          _recsum_llm_data, _baseline_llm_data, _pairwise_data, message_count,
          _is_calculated, pc, caller, i, ideal_response, query, error,
          lastCall, file, stdout, given, stats, hist>>

\* ------------------------------------------------------------ data classes
MetricSet == {"faithfulness", "informativeness", "coherency"}
SemanticSet == {"precision", "recall", "f1"}

RawSemanticData == [precision |-> <<>>, recall |-> <<>>, f1 |-> <<>>]

RawLLMData == [faithfulness |-> <<>>, informativeness |-> <<>>, coherency |-> <<>>]

Counters == [recsum |-> 0, baseline |-> 0, draw |-> 0]

PairwiseResults == [faithfulness |-> Counters, informativeness |-> Counters,
                    coherency |-> Counters]

\* sum(d.values()) of one counter dictionary
CounterSum(d) == d.recsum + d.baseline + d.draw

get_total_count(p) == CounterSum(p.faithfulness)

\* ---------------------------------------------------------- list helpers
Last(s) == s[Len(s)]

Front(s) == SubSeq(s, 1, Len(s) - 1)

Range(s) == {s[n] : n \in 1..Len(s)}

\* list.pop(0): the first element is taken
pop_front(s) == [value |-> Head(s), rest |-> Tail(s)]

\* s[-1]: the last element is read and stays in the list
pop_not_removed(s) == [value |-> Last(s), rest |-> s]

\* list.pop() on a non-empty list: the value returned and the list left
pop(s) == [value |-> Last(s), rest |-> Front(s)]

\* ------------------------------------------------------------ MetricStats
\* A float is held as [m, e] and stands for m * 2^e: either zero (m = 0,
\* e = 0) or normal with 2^(MantissaBits-1) <= m < 2^MantissaBits (no bound
\* on e: nothing here overflows).  Every operation of numpy returns the float
\* nearest to the exact result, ties to the even m, as IEEE 754 arithmetic
\* does with 53 bits.  The scores of the scorers below are the floats of whole
\* numbers up to 2^MantissaBits.
Abs(x) == IF x < 0 THEN -x ELSE x

Pow2(k) == 2 ^ k

Radix == Pow2(MantissaBits)

Zero == [m |-> 0, e |-> 0]

\* the float nearest to (n / d) * 2^e, for n >= 0 and d > 0
RECURSIVE Round(_, _, _)
Round(n, d, e) ==
    IF n = 0 THEN Zero
    ELSE IF n >= d * Radix THEN Round(n, 2 * d, e + 1)
    ELSE IF 2 * n < d * Radix THEN Round(2 * n, d, e - 1)
    ELSE LET q == n \div d
             r == n % d
             m == IF 2 * r > d \/ (2 * r = d /\ q % 2 = 1) THEN q + 1 ELSE q
         IN  IF m = Radix THEN [m |-> Radix \div 2, e |-> e + 1] ELSE [m |-> m, e |-> e]

\* the float of a whole number
Float(v) == Round(v, 1, 0)

\* x <= y for floats that are not negative
LessEq(x, y) ==
    \/ x.m = 0
    \/ y.m # 0 /\ (x.e < y.e \/ (x.e = y.e /\ x.m <= y.m))

\* an operand more than MantissaBits + 2 binary places below the other does
\* not reach the place where the result is rounded
Negligible(x, y) == x.m = 0 \/ (y.m # 0 /\ y.e - x.e > MantissaBits + 2)

\* x + y of two floats that are not negative: the exact sum is
\* (x.m * 2^(x.e - lo) + y.m * 2^(y.e - lo)) * 2^lo, lo the smaller exponent
Add(x, y) ==
    IF Negligible(x, y) THEN y
    ELSE IF Negligible(y, x) THEN x
    ELSE IF x.e < y.e
         THEN Round(x.m + y.m * Pow2(y.e - x.e), Pow2(y.e - x.e), y.e)
         ELSE Round(x.m * Pow2(x.e - y.e) + y.m, Pow2(x.e - y.e), x.e)

\* |x - y|: rounding is symmetric about zero
AbsSub(x, y) ==
    IF Negligible(x, y) THEN y
    ELSE IF Negligible(y, x) THEN x
    ELSE IF x.e < y.e
         THEN Round(Abs(x.m - y.m * Pow2(y.e - x.e)), 1, x.e)
         ELSE Round(Abs(x.m * Pow2(x.e - y.e) - y.m), 1, y.e)

\* x * y: the exact product is x.m * y.m * 2^(x.e + y.e)
Mul(x, y) == Round(x.m * y.m, Radix \div 2, x.e + y.e + MantissaBits - 1)

\* x / n for a count n > 0
DivBy(x, n) == Round(x.m, n, x.e)

\* a float as a fraction of whole numbers
Num(x) == IF x.e >= 0 THEN x.m * Pow2(x.e) ELSE x.m

Den(x) == IF x.e >= 0 THEN 1 ELSE Pow2(-x.e)

\* np.add.reduce over a short array: one addition after the other
RECURSIVE SumSeq(_)
SumSeq(s) == IF s = <<>> THEN Zero ELSE Add(SumSeq(Front(s)), Last(s))

MinOf(s) == CHOOSE x \in Range(s) : \A y \in Range(s) : LessEq(x, y)

MaxOf(s) == CHOOSE x \in Range(s) : \A y \in Range(s) : LessEq(y, x)

\* np.sum in the place of np.mean
Mean_not_divided(s) == SumSeq(s)

\* np.mean: the sum, then one division by the count
Mean(s) == DivBy(SumSeq(s), Len(s))

\* the sum of (x - mean)^2 as np.std takes it: subtract, multiply, add
RECURSIVE SumSquares(_, _)
SumSquares(s, mean) ==
    IF s = <<>>
    THEN Zero
    ELSE LET x == AbsSub(Last(s), mean)
         IN  Add(SumSquares(Front(s), mean), Mul(x, x))

\* np.std is the population standard deviation sqrt(sum((x - mean)^2) / N).
\* Its square is held here.
StdSquared(s, mean) == DivBy(SumSquares(s, mean), Len(s))

\* the dataclass defaults
MetricStats == [mean |-> Zero, std |-> Zero, min |-> Zero, max |-> Zero,
                count |-> 0]

\* np.mean and np.std of an empty array: nan
NaN == [m |-> 0, e |-> 1]

\* lines 47-54 for every list, the empty one too: its mean and std are nan
from_values_of_empty_is_nan(values) ==
    IF values = <<>>
    THEN [mean |-> NaN, std |-> NaN, min |-> Zero, max |-> Zero, count |-> 0]
    ELSE LET mean == Mean(values) IN
         [mean |-> mean, std |-> StdSquared(values, mean),
          min |-> MinOf(values), max |-> MaxOf(values), count |-> Len(values)]

from_values(values) ==
    IF values = <<>>
    THEN MetricStats
    ELSE LET mean == Mean(values) IN
         [mean |-> mean, std |-> StdSquared(values, mean),
          min |-> MinOf(values), max |-> MaxOf(values), count |-> Len(values)]

\* SystemResults as the property `results` fills it from one system's buffers
SystemResults(semantic, llm) ==
    [semantic_precision |-> from_values(semantic.precision),
     semantic_recall |-> from_values(semantic.recall),
     semantic_f1 |-> from_values(semantic.f1),
     llm_faithfulness |-> from_values(llm.faithfulness),
     llm_informativeness |-> from_values(llm.informativeness),
     llm_coherency |-> from_values(llm.coherency)]

StatNames == {"semantic_precision", "semantic_recall", "semantic_f1",
              "llm_faithfulness", "llm_informativeness", "llm_coherency"}

\* MCPResults built by one access of `results`, lines 118-160.  Of the
\* metadata only message_count is kept: n_samples and version are constants of
\* the run and timestamp is the wall clock.
MCPResults ==
    [metadata |-> [message_count |-> message_count],
     recsum_results |-> SystemResults(_recsum_semantic_data, _recsum_llm_data),
     baseline_results |-> SystemResults(_baseline_semantic_data, _baseline_llm_data),
     pairwise_results |-> _pairwise_data]

\* ------------------------------------------------- external collaborators
\* The two systems under test and the two scorers are not part of this file.
\* A response is identified by the system that gave it and the turn it
\* answers; a score is a fixed function of what the scorer is given, with
\* different values for different fields, systems and turns.
Response(sys, d, q) == [sys |-> sys, dlg |-> d, query |-> q]

SysNo(sys) == IF sys = "recsum" THEN 1 ELSE 2

\* SemanticSimilarity.compute_similarity(response, reference)
compute_similarity(response, reference) ==
    [precision |-> Float(10 * SysNo(response.sys) + response.query),
     recall |-> Float(20 * SysNo(response.sys) + reference),
     f1 |-> Float(30 * SysNo(response.sys) + response.dlg)]

\* LLMEvaluation.evaluate_single(context, memory, response)
evaluate_single(context, memory, response) ==
    [faithfulness_score |-> Float(SysNo(response.sys) + Len(context)),
     informativeness_score |-> Float(3 * SysNo(response.sys) + memory),
     coherency_score |-> Float(5 * SysNo(response.sys) + response.query)]

\* ComparisonResult
RESPONSE_1_BETTER == "RESPONSE_1_BETTER"

RESPONSE_2_BETTER == "RESPONSE_2_BETTER"

TIE == "TIE"

\* the answers of LLMEvaluation.evaluate_pairwise: every metric gets every
\* verdict in one of them
PairwiseScores ==
    <<[faithfulness |-> RESPONSE_1_BETTER, informativeness |-> RESPONSE_2_BETTER,
       coherency |-> TIE],
      [faithfulness |-> RESPONSE_2_BETTER, informativeness |-> TIE,
       coherency |-> RESPONSE_1_BETTER],
      [faithfulness |-> TIE, informativeness |-> RESPONSE_1_BETTER,
       coherency |-> RESPONSE_2_BETTER]>>

\* LLMEvaluation.evaluate_pairwise(context, memory, response_a, response_b):
\* the answer changes with the context and with the order of the responses
evaluate_pairwise(context, memory, response_a, response_b) ==
    PairwiseScores[((Len(context) + memory + SysNo(response_a.sys)) % 3) + 1]

\* ------------------------------------------------------ the _update_* bodies
Append3(data, a, x, b, y, c, z) ==
    [data EXCEPT ![a] = Append(@, x), ![b] = Append(@, y), ![c] = Append(@, z)]

\* line 203 or 210 appending to precision instead of recall
append_semantic_twice_precision(data, score) ==
    [data EXCEPT !.precision = Append(Append(@, score.recall), score.precision),
                 !.f1 = Append(@, score.f1)]

\* lines 203-205 and 210-212: the three appends that follow one
\* compute_similarity call
append_semantic(data, score) ==
    Append3(data, "recall", score.recall, "precision", score.precision,
            "f1", score.f1)

\* lines 220 and 229 left out: coherency is not appended
append_llm_without_coherency(data, score) ==
    [data EXCEPT !.faithfulness = Append(@, score.faithfulness_score),
                 !.informativeness = Append(@, score.informativeness_score)]

\* lines 218-220 and 225-229: the three appends that follow one
\* evaluate_single call
append_llm(data, score) ==
    Append3(data, "faithfulness", score.faithfulness_score,
            "informativeness", score.informativeness_score,
            "coherency", score.coherency_score)

\* lines 260-261 left out: a verdict that names no response counts nowhere
update_metric_count_no_draw(result_dict, score_value, recsum_first) ==
    IF score_value = RESPONSE_1_BETTER
    THEN LET winner == IF recsum_first THEN "recsum" ELSE "baseline"
         IN  [result_dict EXCEPT ![winner] = @ + 1]
    ELSE IF score_value = RESPONSE_2_BETTER
    THEN LET winner == IF recsum_first THEN "baseline" ELSE "recsum"
         IN  [result_dict EXCEPT ![winner] = @ + 1]
    ELSE result_dict

\* the body of the loop of _update_pairwise_counts for one metric
update_metric_count(result_dict, score_value, recsum_first) ==
    IF score_value = RESPONSE_1_BETTER
    THEN LET winner == IF recsum_first THEN "recsum" ELSE "baseline"
         IN  [result_dict EXCEPT ![winner] = @ + 1]
    ELSE IF score_value = RESPONSE_2_BETTER
    THEN LET winner == IF recsum_first THEN "baseline" ELSE "recsum"
         IN  [result_dict EXCEPT ![winner] = @ + 1]
    ELSE [result_dict EXCEPT !["draw"] = @ + 1]

_update_pairwise_counts(data, score, recsum_first) ==
    [metric \in MetricSet |->
        update_metric_count(data[metric], score[metric], recsum_first)]

\* ---------------------------------------------------------------- printing
\* line 342
metrics == <<"faithfulness", "informativeness", "coherency">>

ZeroDivisionError == "ZeroDivisionError"

\* lines 351-353: x / total_count * 100 printed with one decimal, held in
\* tenths of a percent; only evaluated where total_count is not zero
percentage(x, total_count) == (2000 * x + total_count) \div (2 * total_count)

\* lines 343-354: one line per metric; the first division by a zero total
\* raises before anything of the line is printed
pairwise_lines(pairwise_results, total_count) ==
    IF total_count = 0
    THEN [notice |-> FALSE, lines |-> <<>>, raised |-> ZeroDivisionError]
    ELSE [notice |-> FALSE,
          lines |-> [k \in 1..3 |->
                       LET result_dict == pairwise_results[metrics[k]] IN
                       [metric |-> metrics[k],
                        recsum |-> percentage(result_dict.recsum, total_count),
                        baseline |-> percentage(result_dict.baseline, total_count),
                        draws |-> percentage(result_dict.draw, total_count)]],
          raised |-> "none"]

\* "No pairwise evaluations completed.", line 335
NoPairwise == [notice |-> TRUE, lines |-> <<>>, raised |-> "none"]

\* lines 332-354 without the test of lines 334-336
_print_llm_pairwise_results_no_guard(results) ==
    pairwise_lines(results.pairwise_results,
                   get_total_count(results.pairwise_results))

\* lines 331-354: what the pairwise block prints
_print_llm_pairwise_results(results) ==
    LET total_count == get_total_count(results.pairwise_results) IN
    IF total_count = 0
    THEN NoPairwise
    ELSE pairwise_lines(results.pairwise_results, total_count)

\* ------------------------------------------------------------------ state
buffers == <<_recsum_semantic_data, _baseline_semantic_data, _recsum_llm_data,
             _baseline_llm_data>>

accumulators == <<buffers, _pairwise_data>>

output == <<file, stdout>>

sample == <<given, stats>>

NoCall == [fn |-> "none", sys |-> "none", dlg |-> 0, query |-> 0,
           context |-> <<>>, reference |-> 0, first |-> "none"]

NoneDone == [dlg |-> 0, k |-> 0, processed |-> 0, queries |-> {}]

NoVerdict == [score |-> <<>>, recsum_first |-> FALSE]

\* nothing printed yet
NoOutput == [processed |-> 0, blocks |-> 0,
             pairwise |-> [notice |-> FALSE, lines |-> <<>>, raised |-> "none"]]

\* the path does not exist
Absent == [written |-> "absent", document |-> <<>>]

\* the path after open(filepath, "w"): it exists and holds nothing
Truncated == [written |-> "empty", document |-> <<>>]

\* the path holds the first part of a document
Partial == [written |-> "partial", document |-> <<>>]

\* the path holds the whole of json.dump(results_dict)
Complete(results_dict) == [written |-> "complete", document |-> results_dict]

\* every session as loaded holds at least its ideal turn
DatasetsUpTo(sessions_max) ==
    UNION {[1..n -> {[j \in 1..k |-> j] : k \in 1..MaxTurns}] : n \in 0..sessions_max}

Datasets == DatasetsUpTo(MaxSessions)

\* from_values has not been called on its own
NoStats == [returned |-> FALSE, value |-> MetricStats]

\* CalculateMCPMetrics.__init__ over the dataset `sessions`
Constructed ==
    /\ original = sessions
    /\ _recsum_semantic_data = RawSemanticData
    /\ _baseline_semantic_data = RawSemanticData
    /\ _recsum_llm_data = RawLLMData
    /\ _baseline_llm_data = RawLLMData
    /\ _pairwise_data = PairwiseResults
    /\ message_count = 0
    /\ _is_calculated = FALSE
    /\ pc = "idle"
    /\ caller = "none"
    /\ i = 0
    /\ ideal_response = 0
    /\ query = 0
    /\ error = "none"
    /\ lastCall = NoCall
    /\ file = Absent
    /\ stdout = NoOutput
    /\ hist = [calls |-> 0,          \* client calls started
               failures |-> 0,       \* external calls that raised
               pairwise_done |-> 0,  \* evaluate_pairwise calls that returned
               builds |-> 0,         \* MCPResults objects built
               visited |-> {},       \* dialogues entered by the running calculate()
               failedIn |-> 0,       \* dialogue in which that calculate() raised
               rerun |-> FALSE,      \* calculate() was called with _is_calculated set
               entryLen |-> 0,       \* len(messages) when _process_dialogue began
               entryCount |-> 0,     \* message_count when _process_dialogue began
               queries |-> {},       \* turns popped as queries since then
               done |-> NoneDone,    \* what the last _process_dialogue that returned did
               verdict |-> NoVerdict,  \* what the last _update_pairwise_counts was given
               returned |-> <<>>,    \* reports returned since the last calculate() call
               fileBefore |-> Absent]  \* the path when save_results_to_json was called

Init ==
    /\ sessions \in Datasets
    /\ given = <<>>
    /\ stats = NoStats
    /\ Constructed

N == Len(sessions)

\* ------------------------------------------------------------ client calls
\* entry of calculate(), line 163: nothing is checked before the loop starts
enter_calculate ==
    /\ i' = 1
    /\ pc' = "for"
    /\ error' = "none"

\* a client calls calculate()
calculate ==
    /\ pc = "idle"
    /\ hist.calls < MaxCalls
    /\ caller' = "calculate"
    /\ enter_calculate
    /\ hist' = [hist EXCEPT !.calls = @ + 1, !.visited = {}, !.failedIn = 0,
                            !.rerun = _is_calculated, !.returned = <<>>,
                            !.fileBefore = file]
    /\ UNCHANGED <<sessions, original, output, sample, accumulators, message_count, _is_calculated,
                   ideal_response, query, lastCall>>

\* lines 116-117 without the test of _is_calculated
results_always_calculates ==
    /\ pc = "idle"
    /\ hist.calls < MaxCalls
    /\ caller' = "results"
    /\ enter_calculate
    /\ hist' = [hist EXCEPT !.calls = @ + 1, !.visited = {}, !.failedIn = 0,
                            !.fileBefore = file]
    /\ UNCHANGED <<sessions, original, output, sample, accumulators, message_count, _is_calculated,
                   ideal_response, query, lastCall>>

\* the getter of the property `results`, lines 116-117
results_getter ==
    IF ~_is_calculated
    THEN /\ enter_calculate
         /\ hist' = [hist EXCEPT !.calls = @ + 1, !.visited = {}, !.failedIn = 0,
                                 !.fileBefore = file]
    ELSE /\ pc' = "return"
         /\ error' = "none"
         /\ i' = i
         /\ hist' = [hist EXCEPT !.calls = @ + 1, !.fileBefore = file]

\* a client reads the property `results`
results ==
    /\ pc = "idle"
    /\ hist.calls < MaxCalls
    /\ caller' = "results"
    /\ results_getter
    /\ UNCHANGED <<sessions, original, output, sample, accumulators, message_count, _is_calculated,
                   ideal_response, query, lastCall>>

\* a client calls print_results(), lines 278-280: the count is printed before
\* `self.results` is read
print_results ==
    /\ pc = "idle"
    /\ hist.calls < MaxCalls
    /\ caller' = "print_results"
    /\ stdout' = [NoOutput EXCEPT !.processed = message_count]
    /\ results_getter
    /\ UNCHANGED <<sessions, original, file, sample, accumulators, message_count,
                   _is_calculated, ideal_response, query, lastCall>>

\* a client calls save_results_to_json(filepath), lines 264-270: mkdir of the
\* parent directory raises OSError or returns, then `self.results` is read
save_results_to_json ==
    /\ pc = "idle"
    /\ hist.calls < MaxCalls
    /\ caller' = "save_results_to_json"
    /\ \/ results_getter
       \/ /\ pc' = "idle"
          /\ error' = "OSError"
          /\ i' = i
          /\ hist' = [hist EXCEPT !.calls = @ + 1, !.fileBefore = file]
    /\ UNCHANGED <<sessions, original, output, sample, accumulators, message_count,
                   _is_calculated, ideal_response, query, lastCall>>

\* where the caller of the getter goes on with the report
after_results ==
    CASE caller = "print_results" -> "print"
      [] caller = "save_results_to_json" -> "open"
      [] OTHER -> "idle"

\* lines 118-160: the report is built from the accumulators and returned
results_return ==
    /\ pc = "return"
    /\ pc' = after_results
    /\ hist' = [hist EXCEPT !.builds = @ + 1,
                            !.returned = Append(@, [report |-> MCPResults,
                                                    build |-> hist.builds + 1])]
    /\ UNCHANGED <<sessions, original, output, sample, accumulators, message_count, _is_calculated,
                   caller, i, ideal_response, query, error, lastCall>>

\* lines 282-285: the three blocks are printed from the report just built
\* (nothing has changed since it was built); the first two blocks only format
\* fields of the report
print_blocks ==
    /\ pc = "print"
    /\ LET block == _print_llm_pairwise_results(MCPResults) IN
         /\ stdout' = [stdout EXCEPT !.blocks = IF block.raised = "none" THEN 3 ELSE 2,
                                     !.pairwise = block]
         /\ error' = block.raised
    /\ pc' = "idle"
    /\ UNCHANGED <<sessions, original, file, sample, accumulators, message_count,
                   _is_calculated, caller, i, ideal_response, query, lastCall, hist>>

\* line 272: open(filepath, "w") truncates the path or raises OSError
open_file ==
    /\ pc = "open"
    /\ \/ /\ file' = Truncated
          /\ pc' = "dump"
          /\ UNCHANGED error
       \/ /\ pc' = "idle"
          /\ error' = "OSError"
          /\ UNCHANGED file
    /\ UNCHANGED <<sessions, original, stdout, sample, accumulators, message_count,
                   _is_calculated, caller, i, ideal_response, query, lastCall, hist>>

\* lines 273-275: json.dump writes the document piece by piece into the open
\* file and the with block closes it; a write that raises OSError leaves what
\* was written before it
json_dump ==
    /\ pc = "dump"
    /\ \/ /\ file' = Complete(MCPResults)
          /\ UNCHANGED error
       \/ /\ file' \in {Truncated, Partial}
          /\ error' = "OSError"
    /\ pc' = "idle"
    /\ UNCHANGED <<sessions, original, stdout, sample, accumulators, message_count,
                   _is_calculated, caller, i, ideal_response, query, lastCall, hist>>

\* ------------------------------------------------------------- calculate()
\* line 169 moved into the loop: the flag is set when a dialogue is taken
calculate_for_sets_flag_early ==
    /\ pc = "for"
    /\ IF i <= N
       THEN /\ pc' = "process_dialogue"
            /\ _is_calculated' = TRUE
       ELSE /\ _is_calculated' = TRUE
            /\ pc' = IF caller = "calculate" THEN "idle" ELSE "return"
    /\ UNCHANGED <<sessions, original, output, sample, accumulators, message_count, caller, i,
                   ideal_response, query, error, lastCall, hist>>

\* lines 165-169: the next dialogue, or the end of the loop
calculate_for ==
    /\ pc = "for"
    /\ IF i <= N
       THEN /\ pc' = "process_dialogue"
            /\ UNCHANGED _is_calculated
       ELSE /\ _is_calculated' = TRUE
            /\ pc' = IF caller = "calculate" THEN "idle" ELSE "return"
    /\ UNCHANGED <<sessions, original, output, sample, accumulators, message_count, caller, i,
                   ideal_response, query, error, lastCall, hist>>

\* line 174 written as `while len(dialogue[-1].messages) > 1`
loop_condition_keeps_one(messages) == Len(messages) > 1

\* line 174
loop_condition(messages) == messages # <<>>

\* line 172 written as `dialogue[-1].messages[-1]`: read, not removed
peek_ideal(messages) == [value |-> Last(messages), rest |-> messages]

\* line 172: dialogue[-1].messages.pop()
pop_ideal(messages) == pop(messages)

\* line 172: ideal_response = dialogue[-1].messages.pop(); pop from an empty
\* list raises IndexError, which nothing catches
_process_dialogue ==
    /\ pc = "process_dialogue"
    /\ IF sessions[i] = <<>>
       THEN /\ pc' = "idle"
            /\ error' = "IndexError"
            /\ hist' = [hist EXCEPT !.visited = @ \cup {i}, !.failedIn = i,
                                    !.entryLen = 0, !.entryCount = message_count,
                                    !.queries = {}]
            /\ UNCHANGED <<sessions, ideal_response>>
       ELSE /\ ideal_response' = pop_ideal(sessions[i]).value
            /\ sessions' = [sessions EXCEPT ![i] = pop_ideal(@).rest]
            /\ pc' = "while"
            /\ hist' = [hist EXCEPT !.visited = @ \cup {i},
                                    !.entryLen = Len(sessions[i]),
                                    !.entryCount = message_count,
                                    !.queries = {}]
            /\ UNCHANGED error
    /\ UNCHANGED <<original, output, sample, accumulators, message_count, _is_calculated, caller, i,
                   query, lastCall>>

\* lines 174-176: one more query, or the return of _process_dialogue
while ==
    /\ pc = "while"
    /\ IF loop_condition(sessions[i])
       THEN /\ message_count' = message_count + 1
            /\ query' = pop(sessions[i]).value
            /\ sessions' = [sessions EXCEPT ![i] = pop(@).rest]
            /\ pc' = "recsum"
            /\ hist' = [hist EXCEPT !.queries = @ \cup {pop(sessions[i]).value}]
            /\ UNCHANGED i
       ELSE /\ i' = i + 1
            /\ pc' = "for"
            /\ hist' = [hist EXCEPT !.done =
                            [dlg |-> i, k |-> hist.entryLen,
                             processed |-> message_count - hist.entryCount,
                             queries |-> hist.queries]]
            /\ UNCHANGED <<sessions, message_count, query>>
    /\ UNCHANGED <<original, output, sample, accumulators, _is_calculated, caller, ideal_response,
                   error, lastCall>>

\* ------------------------------------------------------ the external calls
\* lines 236-244: which response evaluate_pairwise is given first
first_response(randomize_order) == IF randomize_order THEN "recsum" ELSE "baseline"

\* lines 240 and 245 with the two keyword arguments exchanged
recsum_first_flag_exchanged(randomize_order) == ~randomize_order

\* lines 240 and 245: the recsum_first handed to _update_pairwise_counts
recsum_first_flag(randomize_order) == randomize_order

\* the call the statement at pc makes; randomize_order matters at "pairwise"
the_call(randomize_order) ==
    CASE pc \in {"recsum", "baseline"} ->
            [NoCall EXCEPT !.fn = "process_dialogue", !.sys = pc, !.dlg = i,
                           !.query = query, !.context = sessions[i]]
      [] pc \in {"semantic_recsum", "semantic_baseline"} ->
            [NoCall EXCEPT !.fn = "compute_similarity",
                           !.sys = IF pc = "semantic_recsum" THEN "recsum" ELSE "baseline",
                           !.dlg = i, !.reference = ideal_response]
      [] pc \in {"llm_recsum", "llm_baseline"} ->
            [NoCall EXCEPT !.fn = "evaluate_single",
                           !.sys = IF pc = "llm_recsum" THEN "recsum" ELSE "baseline",
                           !.dlg = i, !.context = sessions[i]]
      [] pc = "pairwise" ->
            [NoCall EXCEPT !.fn = "evaluate_pairwise", !.dlg = i,
                           !.context = sessions[i],
                           !.first = first_response(randomize_order)]

ExternalPcs == {"recsum", "baseline", "semantic_recsum", "semantic_baseline",
                "llm_recsum", "llm_baseline", "pairwise"}

\* an exception handler that drops what the run has collected
external_call_raises_and_clears ==
    /\ pc \in ExternalPcs
    /\ \E randomize_order \in BOOLEAN : lastCall' = the_call(randomize_order)
    /\ pc' = "idle"
    /\ error' = "external"
    /\ hist' = [hist EXCEPT !.failures = @ + 1, !.failedIn = i]
    /\ _recsum_semantic_data' = RawSemanticData
    /\ _baseline_semantic_data' = RawSemanticData
    /\ _recsum_llm_data' = RawLLMData
    /\ _baseline_llm_data' = RawLLMData
    /\ _pairwise_data' = PairwiseResults
    /\ UNCHANGED <<sessions, original, output, sample, message_count, _is_calculated,
                   caller, i, ideal_response, query>>

\* An external call raises.  Neither _process_dialogue nor calculate() nor
\* `results` has a try statement: the exception leaves the object as it is at
\* the call and ends the client call.
external_call_raises ==
    /\ pc \in ExternalPcs
    /\ \E randomize_order \in BOOLEAN : lastCall' = the_call(randomize_order)
    /\ pc' = "idle"
    /\ error' = "external"
    /\ hist' = [hist EXCEPT !.failures = @ + 1, !.failedIn = i]
    /\ UNCHANGED <<sessions, original, output, sample, accumulators, message_count, _is_calculated,
                   caller, i, ideal_response, query>>

\* lines 178-180
recsum_process_dialogue ==
    /\ pc = "recsum"
    /\ lastCall' = the_call(FALSE)
    /\ pc' = "baseline"
    /\ UNCHANGED <<sessions, original, output, sample, accumulators, message_count, _is_calculated,
                   caller, i, ideal_response, query, error, hist>>

\* line 181
baseline_process_dialogue ==
    /\ pc = "baseline"
    /\ lastCall' = the_call(FALSE)
    /\ pc' = "semantic_recsum"
    /\ UNCHANGED <<sessions, original, output, sample, accumulators, message_count, _is_calculated,
                   caller, i, ideal_response, query, error, hist>>

\* lines 200-205
update_semantic_recsum ==
    /\ pc = "semantic_recsum"
    /\ lastCall' = the_call(FALSE)
    /\ _recsum_semantic_data' =
           append_semantic(_recsum_semantic_data,
                           compute_similarity(Response("recsum", i, query),
                                              ideal_response))
    /\ pc' = "semantic_baseline"
    /\ UNCHANGED <<sessions, original, output, sample, _baseline_semantic_data, _recsum_llm_data,
                   _baseline_llm_data, _pairwise_data, message_count, _is_calculated,
                   caller, i, ideal_response, query, error, hist>>

\* lines 207-212
update_semantic_baseline ==
    /\ pc = "semantic_baseline"
    /\ lastCall' = the_call(FALSE)
    /\ _baseline_semantic_data' =
           append_semantic(_baseline_semantic_data,
                           compute_similarity(Response("baseline", i, query),
                                              ideal_response))
    /\ pc' = "llm_recsum"
    /\ UNCHANGED <<sessions, original, output, sample, _recsum_semantic_data, _recsum_llm_data,
                   _baseline_llm_data, _pairwise_data, message_count, _is_calculated,
                   caller, i, ideal_response, query, error, hist>>

\* lines 187-188 and 217-220: context = str(dialogue[-1]), memory of dialogue i
update_llm_recsum ==
    /\ pc = "llm_recsum"
    /\ lastCall' = the_call(FALSE)
    /\ _recsum_llm_data' =
           append_llm(_recsum_llm_data,
                      evaluate_single(sessions[i], i, Response("recsum", i, query)))
    /\ pc' = "llm_baseline"
    /\ UNCHANGED <<sessions, original, output, sample, _recsum_semantic_data, _baseline_semantic_data,
                   _baseline_llm_data, _pairwise_data, message_count, _is_calculated,
                   caller, i, ideal_response, query, error, hist>>

\* lines 222-229
update_llm_baseline ==
    /\ pc = "llm_baseline"
    /\ lastCall' = the_call(FALSE)
    /\ _baseline_llm_data' =
           append_llm(_baseline_llm_data,
                      evaluate_single(sessions[i], i, Response("baseline", i, query)))
    /\ pc' = "pairwise"
    /\ UNCHANGED <<sessions, original, output, sample, _recsum_semantic_data, _baseline_semantic_data,
                   _recsum_llm_data, _pairwise_data, message_count, _is_calculated,
                   caller, i, ideal_response, query, error, hist>>

\* lines 234-245 with _update_pairwise_counts, lines 247-261
_update_llm_pairwise_scores ==
    /\ pc = "pairwise"
    /\ \E randomize_order \in BOOLEAN :
        LET first == Response(first_response(randomize_order), i, query)
            second == Response(first_response(~randomize_order), i, query)
            score == evaluate_pairwise(sessions[i], i, first, second)
        IN
          /\ lastCall' = the_call(randomize_order)
          /\ _pairwise_data' =
                 _update_pairwise_counts(_pairwise_data, score,
                                         recsum_first_flag(randomize_order))
          /\ hist' = [hist EXCEPT !.pairwise_done = @ + 1,
                                  !.verdict =
                                      [score |-> score,
                                       recsum_first |->
                                           recsum_first_flag(randomize_order)]]
    /\ pc' = "while"
    /\ UNCHANGED <<sessions, original, output, sample, buffers, message_count, _is_calculated,
                   caller, i, ideal_response, query, error>>

Next ==
    \/ calculate
    \/ results
    \/ results_return
    \/ calculate_for
    \/ _process_dialogue
    \/ while
    \/ recsum_process_dialogue
    \/ baseline_process_dialogue
    \/ update_semantic_recsum
    \/ update_semantic_baseline
    \/ update_llm_recsum
    \/ update_llm_baseline
    \/ _update_llm_pairwise_scores
    \/ external_call_raises

Spec == Init /\ [][Next]_vars

\* a dataset of one dialogue long enough for a calculate() that failed in its
\* first turn to leave two turns or more behind
ReentryInit ==
    /\ sessions = <<[j \in 1..(MaxTurns + 1) |-> j]>>
    /\ given = <<>>
    /\ stats = NoStats
    /\ Constructed

ReentrySpec == ReentryInit /\ [][Next]_vars

\* a step of the calculate() that is running: a statement of this file, or
\* an external call that returns or raises
Running ==
    \/ calculate_for
    \/ _process_dialogue
    \/ while
    \/ recsum_process_dialogue
    \/ baseline_process_dialogue
    \/ update_semantic_recsum
    \/ update_semantic_baseline
    \/ update_llm_recsum
    \/ update_llm_baseline
    \/ _update_llm_pairwise_scores
    \/ external_call_raises

\* The object of a client that calls calculate() and nothing else.  A
\* calculate() that has begun goes on: no statement waits, and every
\* external call returns or raises
LiveNext == calculate \/ Running

LiveSpec == Init /\ [][LiveNext]_vars /\ WF_vars(Running)

\* the object with all four client calls
ReportNext ==
    \/ Next
    \/ print_results
    \/ save_results_to_json
    \/ print_blocks
    \/ open_file
    \/ json_dump

ReportInit ==
    /\ sessions \in DatasetsUpTo(MaxReportSessions)
    /\ given = <<>>
    /\ stats = NoStats
    /\ Constructed

ReportSpec == ReportInit /\ [][ReportNext]_vars

\* ------------------------------------------- MetricStats.from_values alone
\* samples of the largest magnitude whose whole numbers are all floats
SampleValues == {Float(v) : v \in (Radix - SampleSpread)..(Radix - 1)}

Samples == UNION {[1..n -> SampleValues] : n \in 0..MaxSamples}

StatsInit ==
    /\ sessions = <<>>
    /\ given \in Samples
    /\ stats = NoStats
    /\ Constructed

\* MetricStats.from_values(given) is called and returns
call_from_values ==
    /\ ~stats.returned
    /\ stats' = [returned |-> TRUE, value |-> from_values(given)]
    /\ UNCHANGED <<sessions, original, output, accumulators, message_count,
                   _is_calculated, pc, caller, i, ideal_response, query, error,
                   lastCall, given, hist>>

StatsNext == call_from_values

StatsSpec == StatsInit /\ [][StatsNext]_vars

\* ================================================================== claims
\* positions inside the loop of _process_dialogue
InDialogue == {"while"} \cup ExternalPcs

\* the turn a session was loaded with as its last
FinalTurn(d) == Len(original[d])

\* sum of (k_d - 1) over the dialogues of the dataset as loaded
RECURSIVE QueryTurns(_)
QueryTurns(n) == IF n = 0 THEN 0 ELSE (Len(original[n]) - 1) + QueryTurns(n - 1)

BufferLengths(semantic, llm) ==
    [precision |-> Len(semantic.precision), recall |-> Len(semantic.recall),
     f1 |-> Len(semantic.f1), faithfulness |-> Len(llm.faithfulness),
     informativeness |-> Len(llm.informativeness), coherency |-> Len(llm.coherency)]

RecsumLengths == BufferLengths(_recsum_semantic_data, _recsum_llm_data)

BaselineLengths == BufferLengths(_baseline_semantic_data, _baseline_llm_data)

SixMetrics == SemanticSet \cup MetricSet

\* C1: a run of _process_dialogue that began with k >= 1 turns in the replayed
\* session and met no failing external call has processed exactly k - 1 turns
\* when it returns (message_count grew by k - 1), never more than k - 1 while
\* it runs, the turn that was last at entry is never popped as a query, and
\* the pop of line 172 raises only when the session held no turn at all.
C1_ProcessesAllButLast ==
    /\ hist.done.dlg # 0 =>
          /\ hist.done.k >= 1
          /\ hist.done.processed = hist.done.k - 1
          /\ hist.done.k \notin hist.done.queries
          /\ Cardinality(hist.done.queries) = hist.done.k - 1
    /\ pc \in InDialogue =>
          /\ message_count - hist.entryCount <= hist.entryLen - 1
          /\ hist.entryLen \notin hist.queries
    /\ error = "IndexError" => hist.entryLen = 0

\* a session of one turn has just been replayed with nothing processed, after
\* a longer session gave its turns
C1_Witness ==
    /\ hist.done.dlg = 2
    /\ hist.done.k = 1
    /\ hist.done.processed = 0
    /\ message_count >= 2
    /\ hist.failures = 0
    /\ error = "none"

\* C2: whenever no call is running, also after a call that an external scorer
\* or system ended by failing, the candidate buffer and the baseline buffer of
\* each of the six metrics have equal length.
C2_EqualLengthAlways ==
    pc = "idle" => \A m \in SixMetrics : RecsumLengths[m] = BaselineLengths[m]

\* C3: for each preference metric recsum + baseline + draw is the number of
\* evaluate_pairwise calls that have returned, so get_total_count() equals the
\* totals of informativeness and coherency; and a returning call adds exactly
\* 1 to exactly one counter of each metric.
C3_TallySumsToJudgments ==
    /\ [](/\ \A m \in MetricSet : CounterSum(_pairwise_data[m]) = hist.pairwise_done
          /\ get_total_count(_pairwise_data) = CounterSum(_pairwise_data.informativeness)
          /\ get_total_count(_pairwise_data) = CounterSum(_pairwise_data.coherency))
    /\ [][/\ hist'.pairwise_done \in {hist.pairwise_done, hist.pairwise_done + 1}
          /\ hist'.pairwise_done = hist.pairwise_done => _pairwise_data' = _pairwise_data
          /\ hist'.pairwise_done = hist.pairwise_done + 1 =>
                \A m \in MetricSet :
                    \E c \in {"recsum", "baseline", "draw"} :
                        _pairwise_data'[m] = [_pairwise_data[m] EXCEPT ![c] = @ + 1]]_vars

\* three judgments have returned and faithfulness has a draw among them
C3_Witness ==
    /\ hist.pairwise_done = 3
    /\ _pairwise_data.faithfulness.draw >= 1
    /\ _pairwise_data.informativeness.recsum >= 1

Other(sys) == IF sys = "recsum" THEN "baseline" ELSE "recsum"

\* the counter a verdict stands for when the response named `first` was shown first
Winner(verdict, first) ==
    IF verdict = RESPONSE_1_BETTER THEN first
    ELSE IF verdict = RESPONSE_2_BETTER THEN Other(first)
    ELSE "draw"

\* C4: whenever evaluate_pairwise returns, for every metric the counter that
\* grows (by 1, the others staying) is the one of the response the verdict
\* names, read in the order in which the two responses were handed to
\* evaluate_pairwise: RESPONSE_1_BETTER is the response given first,
\* RESPONSE_2_BETTER the other one, anything else is a draw; and the
\* recsum_first handed to _update_pairwise_counts says whether the candidate
\* response was given first.
C4_OrderConsistent ==
    [][hist'.pairwise_done = hist.pairwise_done + 1 =>
          /\ lastCall'.fn = "evaluate_pairwise"
          /\ hist'.verdict.recsum_first = (lastCall'.first = "recsum")
          /\ \A m \in MetricSet :
                _pairwise_data'[m] =
                    [_pairwise_data[m] EXCEPT
                        ![Winner(hist'.verdict.score[m], lastCall'.first)] = @ + 1]]_vars

\* the baseline response was shown first and judged the better one for
\* faithfulness: the baseline counter has grown
C4_Witness ==
    /\ pc = "while"
    /\ lastCall.fn = "evaluate_pairwise"
    /\ lastCall.first = "baseline"
    /\ hist.verdict.score.faithfulness = RESPONSE_1_BETTER
    /\ hist.verdict.recsum_first = FALSE
    /\ _pairwise_data.faithfulness.baseline >= 1

\* C5: in every call to a system under test neither the query nor the context
\* is or holds the final turn the session was loaded with; the contexts given
\* to the judgment scorer do not hold it either (it is only ever handed out as
\* the reference of compute_similarity).
C5_IdealNeverShown ==
    /\ lastCall.fn = "process_dialogue" =>
          /\ lastCall.query # FinalTurn(lastCall.dlg)
          /\ FinalTurn(lastCall.dlg) \notin Range(lastCall.context)
    /\ lastCall.fn \in {"evaluate_single", "evaluate_pairwise"} =>
          FinalTurn(lastCall.dlg) \notin Range(lastCall.context)
    /\ lastCall.reference # 0 => lastCall.fn = "compute_similarity"

\* the baseline system is called with the turn before the ideal response as
\* query and the turns before that as context
C5_Witness ==
    /\ lastCall.fn = "process_dialogue"
    /\ lastCall.sys = "baseline"
    /\ FinalTurn(lastCall.dlg) = 3
    /\ lastCall.query = 2
    /\ lastCall.context = <<1>>
    /\ ideal_response = 3

\* C6 as stated: when calculate() has ended because an external call failed
\* while some session was replayed, every session of the dataset, the later
\* ones included, has been replayed by that calculate().
C6_LaterSessionsStillReplayed ==
    (pc = "idle" /\ error = "external") => hist.visited = 1..N

\* C7: a failing external call changes no buffer and no tally: what was
\* appended and counted before it, in earlier sessions and in earlier turns of
\* the session being replayed, is all there after it.
C7_NoRollback ==
    [][hist'.failures = hist.failures + 1 =>
          /\ _recsum_semantic_data' = _recsum_semantic_data
          /\ _baseline_semantic_data' = _baseline_semantic_data
          /\ _recsum_llm_data' = _recsum_llm_data
          /\ _baseline_llm_data' = _baseline_llm_data
          /\ _pairwise_data' = _pairwise_data]_vars

\* a call failed in the second session after a first session and an earlier
\* turn of the second had been scored, and their samples are held
C7_Witness ==
    /\ pc = "idle"
    /\ error = "external"
    /\ hist.failedIn = 2
    /\ RecsumLengths["precision"] >= 3
    /\ BaselineLengths["coherency"] >= 2
    /\ hist.pairwise_done >= 2

\* C8 as stated: a calculate() called after a completed one returns normally.
C8_SecondCalculateReturns ==
    (pc = "idle" /\ caller = "calculate" /\ hist.rerun) => error = "none"

C10_CountsAfterCompleteRun ==
    (_is_calculated /\ hist.failures = 0) =>
        LET total == QueryTurns(N)
        IN  /\ message_count = total
            /\ \A m \in SixMetrics :
                  /\ RecsumLengths[m] = total
                  /\ BaselineLengths[m] = total
            /\ \A m \in MetricSet : CounterSum(_pairwise_data[m]) = total
            /\ \A n \in DOMAIN hist.returned :
                  LET report == hist.returned[n].report
                  IN  /\ report.metadata.message_count = total
                      /\ \A st \in StatNames :
                            /\ report.recsum_results[st].count = total
                            /\ report.baseline_results[st].count = total
                      /\ \A m \in MetricSet :
                            CounterSum(report.pairwise_results[m]) = total

\* `results` has returned the report of a complete run over two sessions of
\* two and three turns
C10_Witness ==
    /\ _is_calculated
    /\ hist.failures = 0
    /\ N = 2
    /\ Len(original[1]) = 2
    /\ Len(original[2]) = 3
    /\ message_count = 3
    /\ hist.returned # <<>>
    /\ Last(hist.returned).report.baseline_results.llm_coherency.count = 3

\* C11: print_results never raises a division-by-zero error: for the tallies
\* of every reachable state (the block reads nothing else of the report) the
\* pairwise block is printed without a division by zero, it is the no-data
\* notice alone exactly when the total pairwise count is zero, and the step of
\* print_results that prints the blocks prints that block and ends without an
\* error.
C11_NoDivisionByZero ==
    /\ [](LET block == _print_llm_pairwise_results([pairwise_results |-> _pairwise_data]) IN
            /\ error # ZeroDivisionError
            /\ block.raised = "none"
            /\ (get_total_count(_pairwise_data) = 0) <=> (block = NoPairwise))
    /\ [][pc = "print" =>
              /\ get_total_count(_pairwise_data) = 0 => stdout'.pairwise = NoPairwise
              /\ get_total_count(_pairwise_data) # 0 => Len(stdout'.pairwise.lines) = 3
              /\ stdout'.blocks = 3
              /\ error' = "none"
              /\ pc' = "idle"]_vars

\* print_results has printed the notice for a dataset of one session that
\* holds its ideal turn only
C11_Witness ==
    /\ pc = "idle"
    /\ caller = "print_results"
    /\ N = 1
    /\ _is_calculated
    /\ get_total_count(_pairwise_data) = 0
    /\ stdout.pairwise = NoPairwise
    /\ stdout.blocks = 3

\* the field of SystemResults filled from the buffer of a metric
StatOf ==
    [precision |-> "semantic_precision", recall |-> "semantic_recall",
     f1 |-> "semantic_f1", faithfulness |-> "llm_faithfulness",
     informativeness |-> "llm_informativeness", coherency |-> "llm_coherency"]

ZeroStats ==
    [mean |-> [m |-> 0, e |-> 0], std |-> [m |-> 0, e |-> 0],
     min |-> [m |-> 0, e |-> 0], max |-> [m |-> 0, e |-> 0], count |-> 0]

\* C12: from_values of the empty list is the all-zero sentinel; whenever
\* `results` is about to build the report, the MetricStats of every buffer that
\* is empty is that sentinel; and the report is then built and handed back
\* without an error, also when no turn was processed at all.
C12_EmptyBufferIsSentinel ==
    /\ [](/\ from_values(<<>>) = ZeroStats
          /\ pc = "return" =>
                LET report == MCPResults IN
                \A m \in SixMetrics :
                    /\ RecsumLengths[m] = 0 =>
                          report.recsum_results[StatOf[m]] = ZeroStats
                    /\ BaselineLengths[m] = 0 =>
                          report.baseline_results[StatOf[m]] = ZeroStats)
    /\ [][pc = "return" =>
              /\ error' = "none"
              /\ pc' = after_results
              /\ hist'.returned = Append(hist.returned,
                                         [report |-> MCPResults,
                                          build |-> hist.builds + 1])]_vars

\* `results` has returned a report for two sessions that hold their ideal turn
\* only: nothing was processed and every MetricStats is the sentinel
C12_Witness ==
    /\ pc = "idle"
    /\ caller = "results"
    /\ error = "none"
    /\ N = 2
    /\ message_count = 0
    /\ Len(hist.returned) = 1
    /\ \A st \in StatNames :
          /\ hist.returned[1].report.recsum_results[st] = ZeroStats
          /\ hist.returned[1].report.baseline_results[st] = ZeroStats

C14_DatasetUnchanged ==
    pc = "idle" => sessions = original

\* C15: when save_results_to_json has returned or raised, the path holds what
\* it held when the call began (or is still absent) or the complete document,
\* and the call has returned without an error only if the complete document
\* is there.
C15_AtomicWrite ==
    (pc = "idle" /\ caller = "save_results_to_json") =>
        /\ file = hist.fileBefore \/ file.written = "complete"
        /\ error = "none" => file.written = "complete"

\* the statement that follows each external call of one turn
NextPc ==
    [recsum |-> "baseline", baseline |-> "semantic_recsum",
     semantic_recsum |-> "semantic_baseline", semantic_baseline |-> "llm_recsum",
     llm_recsum |-> "llm_baseline", llm_baseline |-> "pairwise", pairwise |-> "while"]

\* the turns of dialogue d before turn j
TurnsBefore(d, j) == SubSeq(original[d], 1, j - 1)

\* C16: a running calculate() has entered the sessions 1..i in that order, one
\* after the other (i moves on by one, and only when the replay of session i
\* has used up its turns); within the replay of a session the first query is
\* the second-to-last turn of the session as the replay found it, every later
\* query is the turn just before the previous one, and the replay ends only
\* after turn 1 was the query; at the step whose query is turn j the candidate
\* system is given turn j and exactly the turns before j, the baseline system
\* is given the same query and the same context, and the calls of a turn
\* follow each other in the fixed order with no change of query or session
\* between them.
C16_ReplayOrder ==
    /\ [](pc \in InDialogue \cup {"for", "process_dialogue"} =>
              hist.visited = 1..(IF pc \in InDialogue THEN i ELSE i - 1))
    /\ [][i' # i =>
              \/ pc = "idle" /\ i' = 1
              \/ pc = "while" /\ sessions[i] = <<>> /\ i' = i + 1]_vars
    /\ [][(pc = "while" /\ pc' = "recsum") =>
              /\ query' = (IF hist.queries = {} THEN hist.entryLen - 1 ELSE query - 1)
              /\ query' >= 1
              /\ sessions'[i] = TurnsBefore(i, query')]_vars
    /\ [][(pc = "while" /\ pc' = "for") => (hist.queries = {} \/ query = 1)]_vars
    /\ [][(pc = "recsum" /\ pc' = "baseline") =>
              lastCall' = [NoCall EXCEPT !.fn = "process_dialogue", !.sys = "recsum",
                                         !.dlg = i, !.query = query,
                                         !.context = TurnsBefore(i, query)]]_vars
    /\ [][(pc = "baseline" /\ pc' = "semantic_recsum") =>
              /\ lastCall.sys = "recsum"
              /\ lastCall' = [lastCall EXCEPT !.sys = "baseline"]]_vars
    /\ [][(pc \in ExternalPcs) =>
              /\ pc' \in {NextPc[pc], "idle"}
              /\ query' = query
              /\ i' = i
              /\ UNCHANGED sessions]_vars

\* in the second session, of three turns, the baseline has just answered the
\* query turn 1 after turn 2 was processed
C16_Witness ==
    /\ pc = "semantic_recsum"
    /\ i = 2
    /\ Len(original[2]) = 3
    /\ query = 1
    /\ hist.queries = {1, 2}
    /\ lastCall.sys = "baseline"
    /\ lastCall.query = 1
    /\ lastCall.context = <<>>
    /\ hist.failures = 0

\* the positions inside calculate()
CalculatePcs == {"for", "process_dialogue"} \cup InDialogue

\* C17: when every external call returns or raises, a calculate() that is
\* running eventually ends (it returns, or an exception leaves it); each pass
\* of the replay loop takes exactly one turn from the session, the loop is left
\* when the session holds no turn, and no step ever adds a turn to a session.
C17_CalculateTerminates ==
    /\ (pc \in CalculatePcs) ~> (pc \in {"idle", "return"})
    /\ [][(pc = "while" /\ sessions[i] # <<>>) =>
              /\ pc' = "recsum"
              /\ Len(sessions'[i]) = Len(sessions[i]) - 1]_vars
    /\ [][(pc = "while" /\ sessions[i] = <<>>) => (pc' = "for" /\ i' = i + 1)]_vars
    /\ [][\A d \in 1..N : Len(sessions'[d]) <= Len(sessions[d])]_vars

\* calculate() has returned after the replay of two sessions of three turns
C17_Witness ==
    /\ pc = "idle"
    /\ caller = "calculate"
    /\ error = "none"
    /\ _is_calculated
    /\ N = 2
    /\ message_count = 4
    /\ \A d \in 1..N : sessions[d] = <<>>

\* pairwise_total <= baseline judgments <= candidate judgments <= baseline
\* semantic <= candidate semantic <= message_count
MonotoneChain ==
    /\ get_total_count(_pairwise_data) <= BaselineLengths.faithfulness
    /\ BaselineLengths.faithfulness <= RecsumLengths.faithfulness
    /\ RecsumLengths.faithfulness <= BaselineLengths.precision
    /\ BaselineLengths.precision <= RecsumLengths.precision
    /\ RecsumLengths.precision <= message_count

\* the three buffers of one system within one metric family have one length
FamiliesEqual ==
    \A lengths \in {RecsumLengths, BaselineLengths} :
        /\ lengths.precision = lengths.recall
        /\ lengths.recall = lengths.f1
        /\ lengths.faithfulness = lengths.informativeness
        /\ lengths.informativeness = lengths.coherency

\* C18 as stated: in every reachable state the accumulators form the monotone
\* chain, message_count exceeds pairwise_total by at most 1, and the three
\* buffers of a system within a metric family have equal length.
C18_ChainWithinOne ==
    /\ MonotoneChain
    /\ message_count - get_total_count(_pairwise_data) <= 1
    /\ FamiliesEqual

\* C18 amended: in every reachable state the accumulators form the monotone
\* chain and the three buffers of a system within a metric family have equal
\* length; message_count exceeds pairwise_total by the number of external
\* calls that have raised so far, and by one more while the calls of a turn
\* are being made, so by at most 1 only as long as no external call has
\* raised.
C18_ChainWithFailures ==
    /\ MonotoneChain
    /\ FamiliesEqual
    /\ message_count - get_total_count(_pairwise_data) =
           hist.failures + (IF pc \in ExternalPcs THEN 1 ELSE 0)
    /\ hist.failures = 0 => message_count - get_total_count(_pairwise_data) <= 1

\* two calls have each been ended by a failing external call: two turns were
\* counted and not judged
C18_Witness ==
    /\ pc = "idle"
    /\ hist.failures = 2
    /\ message_count - get_total_count(_pairwise_data) = 2
    /\ RecsumLengths.precision > BaselineLengths.precision

\* the positions at which a caller holds, or is being handed, the report
ReportPcs == {"return", "print", "open", "dump"}

ScoredQueries ==
    [a \in 1..Len(_recsum_semantic_data.precision) |->
        <<_recsum_semantic_data.precision[a], _recsum_semantic_data.f1[a]>>]

====
